---- MODULE Spec2Model ----
(***************************************************************************)
(* Adhyayan AI: the client session (client/lib/api.ts: ApiService and      *)
(* AuthProvider) and the backend token service (Express server).           *)
(*                                                                         *)
(* Client values are strings.  Null stands for JavaScript null/undefined   *)
(* (an absent localStorage key, no user).  A CustomUser object is          *)
(* identified by its uid; the code never inspects its other fields.        *)
(***************************************************************************)
EXTENDS Integers, Sequences, FiniteSets, TLC

\* ------------------------------------------------------------------------
\* Bounds
\* ------------------------------------------------------------------------
MaxEvents == 1
MaxCalls == 1
MaxTime == 14
MaxExchanges == 2
MaxMaps == 2
MaxLines == 7

\* ------------------------------------------------------------------------
\* Client: values
\* ------------------------------------------------------------------------
Null == "<null>"
Uids == {"x", "y"}

\* `${token}` issued by POST /api/auth/google for the claimed uid
TokenFor(u) == IF u = "x" THEN "jwt.x" ELSE "jwt.y"

\* JSON.stringify of a user object / of null
JSONstringify(u) ==
    IF u = Null THEN "null" ELSE IF u = "x" THEN "{uid:x}" ELSE "{uid:y}"

\* JSON.parse of a stored string
JSONparse(s) ==
    IF s = "{uid:x}" THEN "x" ELSE IF s = "{uid:y}" THEN "y" ELSE Null

\* JavaScript truthiness of a string-or-null value
Truthy(v) == v /= Null /\ v /= ""

EmptyStore == [authToken |-> Null, user |-> Null]

\* variant: only the authToken key is removed
ClearStore_TokenOnly(st) == [st EXCEPT !.authToken = Null]

\* localStorage.removeItem("authToken"); localStorage.removeItem("user")
ClearStore(st) == [st EXCEPT !.authToken = Null, !.user = Null]

\* Responses of fetch: status 0 is a rejected fetch (no response at all), its
\* body the TypeError message of the browser.
Responses ==
    [status : {0}, body : {"Failed to fetch", "Load failed"}]
        \cup [status : {200}, body : {"token", "notoken", "empty", "text"}]
        \cup [status : {401, 500}, body : {"json"}]

\* generateAudio looks at the status only
AudioResponses ==
    {[status |-> 0, body |-> "Failed to fetch"],
     [status |-> 200, body |-> "blob"]}
        \cup [status : {401, 500}, body : {"json"}]

\* ------------------------------------------------------------------------
\* Client: ApiService (the Authenticated API Gateway)
\* ------------------------------------------------------------------------

\* error.message.includes("fetch") for the TypeError of a rejected fetch
IncludesFetch(msg) == msg = "Failed to fetch"

\* response.ok
ResponseOk(resp) == resp.status >= 200 /\ resp.status <= 299

\* ApiService.makeRequest, from the settled fetch to its return or throw.
\* store: localStorage afterwards; nav: window.location.href = "/" assigned;
\* threw/err: the Error thrown; value: the parsed body returned.
makeRequest(st, resp) ==
    IF resp.status = 0
    THEN [store |-> st, nav |-> FALSE, threw |-> TRUE,
          err |-> IF IncludesFetch(resp.body) THEN "Network error"
                  ELSE "TypeError",
          value |-> Null]
    ELSE IF ~ResponseOk(resp)
    THEN [store |-> IF resp.status = 401 THEN ClearStore(st) ELSE st,
          nav |-> (resp.status = 401), threw |-> TRUE,
          err |-> "API request failed", value |-> Null]
    ELSE IF resp.body = "empty"
    THEN [store |-> st, nav |-> FALSE, threw |-> FALSE, err |-> "",
          value |-> "notoken"]
    ELSE IF resp.body = "text"
    THEN [store |-> st, nav |-> FALSE, threw |-> TRUE,
          err |-> "Invalid JSON response", value |-> Null]
    ELSE [store |-> st, nav |-> FALSE, threw |-> FALSE, err |-> "",
          value |-> resp.body]

\* response.token of the parsed body of POST /auth/google for userData
ResponseToken(value, userData) ==
    IF value = "token" THEN TokenFor(userData) ELSE Null

\* variant: only the token is written to localStorage
authenticateWithGoogle_TokenOnly(st, userData, resp) ==
    LET r == makeRequest(st, resp)
        tok == ResponseToken(r.value, userData)
    IN  IF ~r.threw /\ Truthy(tok)
        THEN [r EXCEPT !.store = [st EXCEPT !.authToken = tok]]
        ELSE r

\* ApiService.authenticateWithGoogle(idToken, userData)
authenticateWithGoogle(st, userData, resp) ==
    LET r == makeRequest(st, resp)
        tok == ResponseToken(r.value, userData)
    IN  IF ~r.threw /\ Truthy(tok)
        THEN [r EXCEPT !.store = [authToken |-> tok,
                                  user |-> JSONstringify(userData)]]
        ELSE r

\* ApiService.logout()
ApiLogout(st, resp) ==
    LET r == makeRequest(st, resp)
    IN  IF ~r.threw THEN [r EXCEPT !.store = ClearStore(r.store)] ELSE r

\* ApiService.generateAudio: its own fetch, not makeRequest
generateAudio(st, resp) ==
    IF resp.status = 0
    THEN [store |-> st, nav |-> FALSE, threw |-> TRUE, err |-> "TypeError",
          value |-> Null]
    ELSE IF ~ResponseOk(resp)
    THEN [store |-> st, nav |-> FALSE, threw |-> TRUE,
          err |-> "Podcast audio generation failed", value |-> Null]
    ELSE [store |-> st, nav |-> FALSE, threw |-> FALSE, err |-> "",
          value |-> "blob"]

\* ApiService.getStoredUser()
getStoredUser(st) == IF Truthy(st.user) THEN JSONparse(st.user) ELSE Null

\* ------------------------------------------------------------------------
\* State
\* ------------------------------------------------------------------------
VARIABLES
    user,                     \* useState<CustomUser | null>
    loading,                  \* useState(true)
    isAuthenticated,          \* useState(false)
    hasProcessedInitialAuth,  \* useRef(false).current
    isComponentMounted,       \* the effect's flag
    effectRan,                \* useEffect has run: the callback is subscribed
    store,                    \* localStorage: authToken and user
    currentUser,              \* auth.currentUser of the identity provider
    events,                   \* identity snapshots queued for the callback
    calls,                    \* asynchronous flows awaiting a network result
    pathname,                 \* window.location.pathname
    sessionEnded,             \* history: logout() tore the session down and
                              \* nobody has signed in since
    lastOp                    \* the step taken last and its outcome

clientVars == <<user, loading, isAuthenticated, hasProcessedInitialAuth,
                isComponentMounted, effectRan, store, currentUser, events,
                calls, pathname, sessionEnded, lastOp>>

Op(name, status, threw, nav) ==
    [op |-> name, status |-> status, threw |-> threw, nav |-> nav]

\* what the browser may hold in localStorage when the page loads
InitialStores ==
    {EmptyStore,
     [authToken |-> TokenFor("x"), user |-> JSONstringify("x")],
     [authToken |-> TokenFor("x"), user |-> Null],
     [authToken |-> Null, user |-> JSONstringify("x")],
     [authToken |-> "", user |-> JSONstringify("x")]}

ClientInit ==
    /\ user = Null
    /\ loading = TRUE
    /\ isAuthenticated = FALSE
    /\ hasProcessedInitialAuth = FALSE
    /\ isComponentMounted = FALSE
    /\ effectRan = FALSE
    /\ store \in InitialStores
    /\ currentUser \in {Null} \cup Uids
    /\ events = <<>>
    /\ calls = {}
    /\ pathname \in {"/", "/dashboard"}
    /\ sessionEnded = FALSE
    /\ lastOp = Op("init", -1, FALSE, "none")

\* ------------------------------------------------------------------------
\* Client: AuthProvider
\* ------------------------------------------------------------------------

\* variant: the token test of ApiService.isAuthenticated (!== null) instead
\* of truthiness
CachedSession_NotNull(storedUser, token) ==
    Truthy(storedUser) /\ token /= Null

\* if (storedUser && token)
CachedSession(storedUser, token) == Truthy(storedUser) /\ Truthy(token)

\* variant: the callback ends without touching loading
CallbackEnd_Skip(mounted, ld) == ld

\* if (isComponentMounted) { setLoading(false) }
CallbackEnd(mounted, ld) == IF mounted THEN FALSE ELSE ld

\* useEffect body: the cached-session check, then the subscription; the
\* identity provider queues the current identity for the new subscriber.
Mount ==
    /\ ~effectRan
    /\ effectRan' = TRUE
    /\ isComponentMounted' = TRUE
    /\ LET storedUser == getStoredUser(store)
           token == store.authToken
       IN  IF CachedSession(storedUser, token)
           THEN /\ user' = storedUser
                /\ isAuthenticated' = TRUE
                /\ hasProcessedInitialAuth' = TRUE
           ELSE UNCHANGED <<user, isAuthenticated, hasProcessedInitialAuth>>
    /\ events' = <<currentUser>>
    /\ lastOp' = Op("mount", -1, FALSE, "none")
    /\ UNCHANGED <<loading, store, currentUser, calls, pathname,
                   sessionEnded>>

\* the effect's cleanup
Unmount ==
    /\ isComponentMounted
    /\ isComponentMounted' = FALSE
    /\ lastOp' = Op("unmount", -1, FALSE, "none")
    /\ UNCHANGED <<user, loading, isAuthenticated, hasProcessedInitialAuth,
                   effectRan, store, currentUser, events, calls, pathname,
                   sessionEnded>>

\* variant: the teardown on a null identity leaves hasProcessedInitialAuth set
DeliverEvent_KeepsFlag ==
    /\ effectRan
    /\ events /= <<>>
    /\ events' = Tail(events)
    /\ LET firebaseUser == Head(events)
       IN  IF ~isComponentMounted
           THEN /\ lastOp' = Op("eventIgnored", -1, FALSE, "none")
                /\ UNCHANGED <<user, loading, isAuthenticated,
                               hasProcessedInitialAuth, store, calls>>
           ELSE IF firebaseUser /= Null /\ ~hasProcessedInitialAuth
           THEN /\ calls' = calls \cup
                      {[kind |-> "auto", stage |-> "exchange",
                        userData |-> firebaseUser]}
                /\ lastOp' = Op("eventExchange", -1, FALSE, "none")
                /\ UNCHANGED <<user, loading, isAuthenticated,
                               hasProcessedInitialAuth, store>>
           ELSE IF firebaseUser = Null /\ hasProcessedInitialAuth
           THEN /\ user' = Null
                /\ isAuthenticated' = FALSE
                /\ UNCHANGED hasProcessedInitialAuth
                /\ store' = ClearStore(store)
                /\ loading' = CallbackEnd(isComponentMounted, loading)
                /\ lastOp' = Op("eventSignedOut", -1, FALSE, "none")
                /\ UNCHANGED calls
           ELSE /\ loading' = CallbackEnd(isComponentMounted, loading)
                /\ lastOp' = Op("eventNoop", -1, FALSE, "none")
                /\ UNCHANGED <<user, isAuthenticated,
                               hasProcessedInitialAuth, store, calls>>
    /\ UNCHANGED <<isComponentMounted, effectRan, currentUser, pathname,
                   sessionEnded>>

\* variant: every non-null identity starts the exchange
DeliverEvent_NoGate ==
    /\ effectRan
    /\ events /= <<>>
    /\ events' = Tail(events)
    /\ LET firebaseUser == Head(events)
       IN  IF ~isComponentMounted
           THEN /\ lastOp' = Op("eventIgnored", -1, FALSE, "none")
                /\ UNCHANGED <<user, loading, isAuthenticated,
                               hasProcessedInitialAuth, store, calls>>
           ELSE IF firebaseUser /= Null
           THEN /\ calls' = calls \cup
                      {[kind |-> "auto", stage |-> "exchange",
                        userData |-> firebaseUser]}
                /\ lastOp' = Op("eventExchange", -1, FALSE, "none")
                /\ UNCHANGED <<user, loading, isAuthenticated,
                               hasProcessedInitialAuth, store>>
           ELSE IF firebaseUser = Null /\ hasProcessedInitialAuth
           THEN /\ user' = Null
                /\ isAuthenticated' = FALSE
                /\ hasProcessedInitialAuth' = FALSE
                /\ store' = ClearStore(store)
                /\ loading' = CallbackEnd(isComponentMounted, loading)
                /\ lastOp' = Op("eventSignedOut", -1, FALSE, "none")
                /\ UNCHANGED calls
           ELSE /\ loading' = CallbackEnd(isComponentMounted, loading)
                /\ lastOp' = Op("eventNoop", -1, FALSE, "none")
                /\ UNCHANGED <<user, isAuthenticated,
                               hasProcessedInitialAuth, store, calls>>
    /\ UNCHANGED <<isComponentMounted, effectRan, currentUser, pathname,
                   sessionEnded>>

\* the onAuthStateChanged callback, up to its first await or its end
DeliverEvent ==
    /\ effectRan
    /\ events /= <<>>
    /\ events' = Tail(events)
    /\ LET firebaseUser == Head(events)
       IN  IF ~isComponentMounted
           THEN /\ lastOp' = Op("eventIgnored", -1, FALSE, "none")
                /\ UNCHANGED <<user, loading, isAuthenticated,
                               hasProcessedInitialAuth, store, calls>>
           ELSE IF firebaseUser /= Null /\ ~hasProcessedInitialAuth
           THEN /\ calls' = calls \cup
                      {[kind |-> "auto", stage |-> "exchange",
                        userData |-> firebaseUser]}
                /\ lastOp' = Op("eventExchange", -1, FALSE, "none")
                /\ UNCHANGED <<user, loading, isAuthenticated,
                               hasProcessedInitialAuth, store>>
           ELSE IF firebaseUser = Null /\ hasProcessedInitialAuth
           THEN /\ user' = Null
                /\ isAuthenticated' = FALSE
                /\ hasProcessedInitialAuth' = FALSE
                /\ store' = ClearStore(store)
                /\ loading' = CallbackEnd(isComponentMounted, loading)
                /\ lastOp' = Op("eventSignedOut", -1, FALSE, "none")
                /\ UNCHANGED calls
           ELSE /\ loading' = CallbackEnd(isComponentMounted, loading)
                /\ lastOp' = Op("eventNoop", -1, FALSE, "none")
                /\ UNCHANGED <<user, isAuthenticated,
                               hasProcessedInitialAuth, store, calls>>
    /\ UNCHANGED <<isComponentMounted, effectRan, currentUser, pathname,
                   sessionEnded>>

\* variant: no try/catch around the exchange, the error leaves the callback
AutoReturn_Uncaught(c, resp) ==
    /\ c \in calls /\ c.kind = "auto"
    /\ calls' = calls \ {c}
    /\ LET r == authenticateWithGoogle(store, c.userData, resp)
           push == ~r.threw /\ pathname = "/"
       IN  /\ store' = r.store
           /\ IF ~r.threw
              THEN /\ user' = c.userData
                   /\ isAuthenticated' = TRUE
                   /\ hasProcessedInitialAuth' = TRUE
              ELSE UNCHANGED <<user, isAuthenticated,
                               hasProcessedInitialAuth>>
           /\ pathname' = IF push THEN "/dashboard"
                          ELSE IF r.nav THEN "/" ELSE pathname
           /\ lastOp' = Op("autoReturn", resp.status, r.threw,
                           IF push THEN "push" ELSE IF r.nav THEN "hard"
                           ELSE "none")
    /\ loading' = IF authenticateWithGoogle(store, c.userData, resp).threw
                  THEN loading
                  ELSE CallbackEnd(isComponentMounted, loading)
    /\ UNCHANGED <<isComponentMounted, effectRan, currentUser, events,
                   sessionEnded>>

\* variant: router.push("/dashboard") without the test of the pathname
AutoReturn_AlwaysPush(c, resp) ==
    /\ c \in calls /\ c.kind = "auto"
    /\ calls' = calls \ {c}
    /\ LET r == authenticateWithGoogle(store, c.userData, resp)
           push == ~r.threw
       IN  /\ store' = r.store
           /\ IF ~r.threw
              THEN /\ user' = c.userData
                   /\ isAuthenticated' = TRUE
                   /\ hasProcessedInitialAuth' = TRUE
              ELSE UNCHANGED <<user, isAuthenticated,
                               hasProcessedInitialAuth>>
           /\ pathname' = IF push THEN "/dashboard"
                          ELSE IF r.nav THEN "/" ELSE pathname
           /\ lastOp' = Op("autoReturn", resp.status, FALSE,
                           IF push THEN "push" ELSE IF r.nav THEN "hard"
                           ELSE "none")
    /\ loading' = CallbackEnd(isComponentMounted, loading)
    /\ UNCHANGED <<isComponentMounted, effectRan, currentUser, events,
                   sessionEnded>>

\* the callback resumes after await apiService.authenticateWithGoogle
AutoReturn(c, resp) ==
    /\ c \in calls /\ c.kind = "auto"
    /\ calls' = calls \ {c}
    /\ LET r == authenticateWithGoogle(store, c.userData, resp)
           push == ~r.threw /\ pathname = "/"
       IN  /\ store' = r.store
           /\ IF ~r.threw
              THEN /\ user' = c.userData
                   /\ isAuthenticated' = TRUE
                   /\ hasProcessedInitialAuth' = TRUE
              ELSE UNCHANGED <<user, isAuthenticated,
                               hasProcessedInitialAuth>>
           /\ pathname' = IF push THEN "/dashboard"
                          ELSE IF r.nav THEN "/" ELSE pathname
           /\ lastOp' = Op("autoReturn", resp.status, FALSE,
                           IF push THEN "push" ELSE IF r.nav THEN "hard"
                           ELSE "none")
    /\ loading' = CallbackEnd(isComponentMounted, loading)
    /\ UNCHANGED <<isComponentMounted, effectRan, currentUser, events,
                   sessionEnded>>

\* login(idToken, userData) is called
LoginCall(userData) ==
    /\ isComponentMounted
    /\ Cardinality(calls) < MaxCalls
    /\ calls' = calls \cup {[kind |-> "login", stage |-> "exchange",
                             userData |-> userData]}
    /\ sessionEnded' = FALSE
    /\ lastOp' = Op("loginCall", -1, FALSE, "none")
    /\ UNCHANGED <<user, loading, isAuthenticated, hasProcessedInitialAuth,
                   isComponentMounted, effectRan, store, currentUser, events,
                   pathname>>

\* variant: login without the else branch that throws "No token received"
LoginReturn_NoTokenCheck(c, resp) ==
    /\ c \in calls /\ c.kind = "login"
    /\ calls' = calls \ {c}
    /\ LET r == authenticateWithGoogle(store, c.userData, resp)
           ok == ~r.threw
           push == ok /\ pathname = "/"
       IN  /\ store' = r.store
           /\ IF ok
              THEN /\ user' = c.userData
                   /\ isAuthenticated' = TRUE
              ELSE UNCHANGED <<user, isAuthenticated>>
           /\ pathname' = IF push THEN "/dashboard"
                          ELSE IF r.nav THEN "/" ELSE pathname
           /\ lastOp' = Op("loginReturn", resp.status, ~ok,
                           IF push THEN "push" ELSE IF r.nav THEN "hard"
                           ELSE "none")
           /\ sessionEnded' = IF ok THEN FALSE ELSE sessionEnded
    /\ UNCHANGED <<loading, hasProcessedInitialAuth, isComponentMounted,
                   effectRan, currentUser, events>>

\* login resumes after await apiService.authenticateWithGoogle
LoginReturn(c, resp) ==
    /\ c \in calls /\ c.kind = "login"
    /\ calls' = calls \ {c}
    /\ LET r == authenticateWithGoogle(store, c.userData, resp)
           tok == ResponseToken(r.value, c.userData)
           ok == ~r.threw /\ Truthy(tok)
           push == ok /\ pathname = "/"
       IN  /\ store' = IF ok
                       THEN [authToken |-> tok,
                             user |-> JSONstringify(c.userData)]
                       ELSE r.store
           /\ IF ok
              THEN /\ user' = c.userData
                   /\ isAuthenticated' = TRUE
              ELSE UNCHANGED <<user, isAuthenticated>>
           /\ pathname' = IF push THEN "/dashboard"
                          ELSE IF r.nav THEN "/" ELSE pathname
           /\ lastOp' = Op("loginReturn", resp.status, ~ok,
                           IF push THEN "push" ELSE IF r.nav THEN "hard"
                           ELSE "none")
           /\ sessionEnded' = IF ok THEN FALSE ELSE sessionEnded
    /\ UNCHANGED <<loading, hasProcessedInitialAuth, isComponentMounted,
                   effectRan, currentUser, events>>

\* logout() is called
LogoutCall ==
    /\ isComponentMounted
    /\ Cardinality(calls) < MaxCalls
    /\ calls' = calls \cup {[kind |-> "logout", stage |-> "backend",
                             userData |-> Null]}
    /\ lastOp' = Op("logoutCall", -1, FALSE, "none")
    /\ UNCHANGED <<user, loading, isAuthenticated, hasProcessedInitialAuth,
                   isComponentMounted, effectRan, store, currentUser, events,
                   pathname, sessionEnded>>

\* variant: the catch block resets the React state but leaves localStorage
LogoutTeardown_CatchKeepsStore(st, cu, resp) ==
    LET r == ApiLogout(st, resp)
    IN  IF ~r.threw
        THEN [user |-> Null, isAuthenticated |-> FALSE,
              store |-> IF cu /= Null THEN r.store ELSE ClearStore(r.store),
              nav |-> r.nav, signOut |-> (cu /= Null),
              stage |-> "signOutTry", threw |-> FALSE]
        ELSE [user |-> Null, isAuthenticated |-> FALSE,
              store |-> r.store,
              nav |-> r.nav, signOut |-> (cu /= Null),
              stage |-> "signOutCatch", threw |-> FALSE]

\* AuthProvider.logout from the return of await apiService.logout() to its
\* next await (auth.signOut()) or its end: the try block, or the catch block
\* when the backend call threw.  signOut: auth.signOut() was called; stage:
\* where the flow awaits it; threw: an error leaves logout().
LogoutTeardown(st, cu, resp) ==
    LET r == ApiLogout(st, resp)
    IN  IF ~r.threw
        THEN [user |-> Null, isAuthenticated |-> FALSE,
              store |-> IF cu /= Null THEN r.store ELSE ClearStore(r.store),
              nav |-> r.nav, signOut |-> (cu /= Null),
              stage |-> "signOutTry", threw |-> FALSE]
        ELSE [user |-> Null, isAuthenticated |-> FALSE,
              store |-> ClearStore(r.store),
              nav |-> r.nav, signOut |-> (cu /= Null),
              stage |-> "signOutCatch", threw |-> FALSE]

\* logout resumes after await apiService.logout()
LogoutReturn(c, resp) ==
    /\ c \in calls /\ c.kind = "logout" /\ c.stage = "backend"
    /\ LET t == LogoutTeardown(store, currentUser, resp)
       IN  /\ user' = t.user
           /\ isAuthenticated' = t.isAuthenticated
           /\ store' = t.store
           /\ calls' = IF t.signOut
                       THEN (calls \ {c}) \cup {[c EXCEPT !.stage = t.stage]}
                       ELSE calls \ {c}
           /\ pathname' = IF t.nav THEN "/" ELSE pathname
           /\ lastOp' = Op("logoutReturn", resp.status, t.threw,
                           IF t.nav THEN "hard" ELSE "none")
    /\ sessionEnded' = TRUE
    /\ UNCHANGED <<loading, hasProcessedInitialAuth, isComponentMounted,
                   effectRan, currentUser, events>>

\* auth.signOut() settles: the provider drops its user and notifies the
\* subscriber; logout runs to its end (the try block clears localStorage).
SignOutDone(c) ==
    /\ c \in calls /\ c.kind = "logout"
    /\ c.stage \in {"signOutTry", "signOutCatch"}
    /\ calls' = calls \ {c}
    /\ currentUser' = Null
    /\ events' = IF currentUser /= Null THEN Append(events, Null) ELSE events
    /\ store' = IF c.stage = "signOutTry" THEN ClearStore(store) ELSE store
    /\ lastOp' = Op("logoutDone", -1, FALSE, "none")
    /\ UNCHANGED <<user, loading, isAuthenticated, hasProcessedInitialAuth,
                   isComponentMounted, effectRan, pathname, sessionEnded>>

\* any ApiService method built on makeRequest other than the two above
\* (getUserProfile, generateMindMap, getMindMaps, getMindMap, deleteMindMap,
\* chatWithGroq, getAvailableVoices, testConnection), when its fetch settles
ApiRequest(resp) ==
    /\ isComponentMounted
    /\ LET r == makeRequest(store, resp)
       IN  /\ store' = r.store
           /\ pathname' = IF r.nav THEN "/" ELSE pathname
           /\ lastOp' = Op("apiRequest", resp.status, r.threw,
                           IF r.nav THEN "hard" ELSE "none")
    /\ UNCHANGED <<user, loading, isAuthenticated, hasProcessedInitialAuth,
                   isComponentMounted, effectRan, currentUser, events, calls,
                   sessionEnded>>

\* ApiService.generateAudio, when its fetch settles
AudioRequest(resp) ==
    /\ isComponentMounted
    /\ LET r == generateAudio(store, resp)
       IN  /\ store' = r.store
           /\ pathname' = IF r.nav THEN "/" ELSE pathname
           /\ lastOp' = Op("generateAudio", resp.status, r.threw,
                           IF r.nav THEN "hard" ELSE "none")
    /\ UNCHANGED <<user, loading, isAuthenticated, hasProcessedInitialAuth,
                   isComponentMounted, effectRan, currentUser, events, calls,
                   sessionEnded>>

\* ------------------------------------------------------------------------
\* Client environment: the identity provider and the user
\* ------------------------------------------------------------------------

\* a user signs in with the identity provider
IdpSignIn(u) ==
    /\ effectRan
    /\ currentUser /= u
    /\ Len(events) < MaxEvents
    /\ currentUser' = u
    /\ events' = Append(events, u)
    /\ sessionEnded' = FALSE
    /\ lastOp' = Op("env", -1, FALSE, "none")
    /\ UNCHANGED <<user, loading, isAuthenticated, hasProcessedInitialAuth,
                   isComponentMounted, effectRan, store, calls, pathname>>

\* the identity provider's session ends out of band
IdpSignOut ==
    /\ effectRan
    /\ currentUser /= Null
    /\ Len(events) < MaxEvents
    /\ currentUser' = Null
    /\ events' = Append(events, Null)
    /\ lastOp' = Op("env", -1, FALSE, "none")
    /\ UNCHANGED <<user, loading, isAuthenticated, hasProcessedInitialAuth,
                   isComponentMounted, effectRan, store, calls, pathname,
                   sessionEnded>>

\* the user moves to another page
Navigate(p) ==
    /\ isComponentMounted
    /\ p /= pathname
    /\ pathname' = p
    /\ lastOp' = Op("env", -1, FALSE, "none")
    /\ UNCHANGED <<user, loading, isAuthenticated, hasProcessedInitialAuth,
                   isComponentMounted, effectRan, store, currentUser, events,
                   calls, sessionEnded>>

ClientNext ==
    \/ Mount
    \/ Unmount
    \/ DeliverEvent
    \/ \E c \in calls, resp \in Responses : AutoReturn(c, resp)
    \/ \E u \in Uids : LoginCall(u)
    \/ \E c \in calls, resp \in Responses : LoginReturn(c, resp)
    \/ LogoutCall
    \/ \E c \in calls, resp \in Responses : LogoutReturn(c, resp)
    \/ \E c \in calls : SignOutDone(c)
    \/ \E resp \in Responses : ApiRequest(resp)
    \/ \E resp \in AudioResponses : AudioRequest(resp)
    \/ \E u \in Uids : IdpSignIn(u)
    \/ IdpSignOut
    \/ \E p \in {"/", "/dashboard"} : Navigate(p)

\* ------------------------------------------------------------------------
\* Backend: values
\* ------------------------------------------------------------------------

\* process.env.JWT_SECRET || "your-secret-key"
JWT_SECRET == "your-secret-key"

\* { expiresIn: "7d" }; the clock counts days
ExpiresIn == 7

\* req.body.user of POST /api/auth/google
Claimed ==
    {[uid |-> "u1", email |-> "a@b.com", displayName |-> "A",
      photoURL |-> "p1"],
     [uid |-> "u1", email |-> "c@d.com", displayName |-> "B",
      photoURL |-> "p2"],
     [uid |-> "u2", email |-> "a@b.com", displayName |-> "A",
      photoURL |-> "p1"]}

NoIdentity == [uid |-> "", email |-> "", displayName |-> "", photoURL |-> ""]

\* req.body: with or without the user field
Bodies ==
    {[hasUser |-> TRUE, user |-> c] : c \in Claimed}
        \cup {[hasUser |-> FALSE, user |-> NoIdentity]}

\* a string that is not a JSON Web Token
Garbage ==
    [kind |-> "garbage", uid |-> "", email |-> "", displayName |-> "",
     iat |-> 0, exp |-> 0, sig |-> ""]

NoClaims == [uid |-> "", email |-> "", displayName |-> "", iat |-> 0, exp |-> 0]

\* jwt.sign(payload, secret, { expiresIn: "7d" })
JwtSign(payload, secret, clock) ==
    [kind |-> "jwt", uid |-> payload.uid, email |-> payload.email,
     displayName |-> payload.displayName,
     iat |-> clock, exp |-> clock + ExpiresIn, sig |-> secret]

\* variant: a token is still accepted at the instant of its expiry
JwtVerify_AtExpiry(tok, secret, clock) ==
    IF tok.kind /= "jwt" \/ tok.sig /= secret
    THEN [ok |-> FALSE, name |-> "JsonWebTokenError", decoded |-> NoClaims]
    ELSE IF clock > tok.exp
    THEN [ok |-> FALSE, name |-> "TokenExpiredError", decoded |-> NoClaims]
    ELSE [ok |-> TRUE, name |-> "",
          decoded |-> [uid |-> tok.uid, email |-> tok.email,
                       displayName |-> tok.displayName,
                       iat |-> tok.iat, exp |-> tok.exp]]

\* jwt.verify(token, secret): the decoded payload, or the name of the error
JwtVerify(tok, secret, clock) ==
    IF tok.kind /= "jwt" \/ tok.sig /= secret
    THEN [ok |-> FALSE, name |-> "JsonWebTokenError", decoded |-> NoClaims]
    ELSE IF clock >= tok.exp
    THEN [ok |-> FALSE, name |-> "TokenExpiredError", decoded |-> NoClaims]
    ELSE [ok |-> TRUE, name |-> "",
          decoded |-> [uid |-> tok.uid, email |-> tok.email,
                       displayName |-> tok.displayName,
                       iat |-> tok.iat, exp |-> tok.exp]]

\* the Authorization header: absent, without a second word, or two words
NoHeader == [kind |-> "none", token |-> Garbage]
BearerOnly == [kind |-> "noToken", token |-> Garbage]
Bearer(tok) == [kind |-> "bearer", token |-> tok]

\* variant: the answer for a header without a token does not return, and
\* next() runs
verifyToken_NoReturn(header, clock) ==
    IF header.kind = "none"
    THEN [next |-> FALSE, status |-> 401,
          error |-> "No authorization header provided", user |-> NoClaims]
    ELSE IF header.kind = "noToken"
    THEN [next |-> TRUE, status |-> 401, error |-> "No token provided",
          user |-> NoClaims]
    ELSE LET v == JwtVerify(header.token, JWT_SECRET, clock)
         IN  IF v.ok
             THEN [next |-> TRUE, status |-> 200, error |-> "",
                   user |-> v.decoded]
             ELSE [next |-> FALSE, status |-> 401, error |-> "Invalid token",
                   user |-> NoClaims]

\* verifyToken(req, res, next): next() with req.user, or the 401 answer
verifyToken(header, clock) ==
    IF header.kind = "none"
    THEN [next |-> FALSE, status |-> 401,
          error |-> "No authorization header provided", user |-> NoClaims]
    ELSE IF header.kind = "noToken"
    THEN [next |-> FALSE, status |-> 401, error |-> "No token provided",
          user |-> NoClaims]
    ELSE LET v == JwtVerify(header.token, JWT_SECRET, clock)
         IN  IF v.ok
             THEN [next |-> TRUE, status |-> 200, error |-> "",
                   user |-> v.decoded]
             ELSE IF v.name = "TokenExpiredError"
             THEN [next |-> FALSE, status |-> 401, error |-> "Token expired",
                   user |-> NoClaims]
             ELSE IF v.name = "JsonWebTokenError"
             THEN [next |-> FALSE, status |-> 401,
                   error |-> "Invalid token format", user |-> NoClaims]
             ELSE [next |-> FALSE, status |-> 401, error |-> "Invalid token",
                   user |-> NoClaims]

\* the routes registered with verifyToken
ProtectedRoutes ==
    {"GET /api/auth/validate", "POST /api/auth/logout",
     "GET /api/user/profile", "POST /api/mindmap/generate",
     "GET /api/mindmap/list", "GET /api/mindmap/:id",
     "DELETE /api/mindmap/:id", "POST /api/chat/groq",
     "POST /api/audio/generate", "GET /api/audio/voices"}

\* User.findOne({ firebase_uid: uid }): the position of the first matching
\* document, 0 when there is none
FindOne(docs, uid) ==
    IF \E i \in DOMAIN docs : docs[i].firebase_uid = uid
    THEN CHOOSE i \in DOMAIN docs :
             /\ docs[i].firebase_uid = uid
             /\ \A j \in DOMAIN docs : docs[j].firebase_uid = uid => i <= j
    ELSE 0

\* new User({ firebase_uid, email, display_name, photo_url })
NewUser(c, clock) ==
    [firebase_uid |-> c.uid, email |-> c.email, display_name |-> c.displayName,
     photo_url |-> c.photoURL, updated_at |-> clock]

\* dbUser.save() of a new document: the collection gets one more document
SaveNew(docs, doc) == Append(docs, doc)

\* variant: the update also assigns the claimed email
SaveUpdate_Email(docs, i, c, clock) ==
    [docs EXCEPT ![i] = [@ EXCEPT !.email = c.email,
                                  !.display_name = c.displayName,
                                  !.photo_url = c.photoURL,
                                  !.updated_at = clock]]

\* dbUser.save() of a found document whose display_name, photo_url and
\* updated_at were assigned
SaveUpdate(docs, i, c, clock) ==
    [docs EXCEPT ![i] = [@ EXCEPT !.display_name = c.displayName,
                                  !.photo_url = c.photoURL,
                                  !.updated_at = clock]]

\* ------------------------------------------------------------------------
\* Backend: state
\* ------------------------------------------------------------------------
VARIABLES
    now,        \* the clock, in days
    users,      \* the User collection
    exchanges,  \* POST /api/auth/google handlers awaiting the database
    started,    \* number of identity exchanges received
    issued,     \* history: the success responses of the identity exchange
    lastRes     \* the response sent last

\* the AI routes and the mind-map routes
VARIABLES
    mindmaps,   \* the MindMap collection, oldest document first
    minted,     \* number of document ids the collection has assigned
    job,        \* the AI request awaiting a completion, or NoJob
    reply,      \* the response these routes sent last
    arguments,  \* a subject name and the lines of a syllabus
    returned    \* what createFallbackMindMap returned for them

treeVars == <<arguments, returned>>

serviceVars == <<mindmaps, minted, job, reply, treeVars>>

backendVars == <<now, users, exchanges, started, issued, lastRes,
                 serviceVars>>

vars == <<clientVars, backendVars>>

Res(op, route, header, status, error, handled, reqUser, token, claimed) ==
    [op |-> op, route |-> route, header |-> header,
     status |-> status, error |-> error, handled |-> handled,
     reqUser |-> reqUser, token |-> token, claimed |-> claimed]

BackendInit ==
    /\ now = 0
    /\ users = <<>>
    /\ exchanges = {}
    /\ started = 0
    /\ issued = {}
    /\ lastRes = Res("init", "", NoHeader, 0, "", FALSE, NoClaims, Garbage,
                     NoIdentity)

\* ------------------------------------------------------------------------
\* Backend: POST /api/auth/google
\* ------------------------------------------------------------------------

\* jwt.sign of the claimed identity and res.json({ success, token, user })
ExchangeRespond(e) ==
    LET token == JwtSign([uid |-> e.user.uid, email |-> e.user.email,
                          displayName |-> e.user.displayName],
                         JWT_SECRET, now)
    IN  /\ issued' = issued \cup {[token |-> token, user |-> e.user,
                                   at |-> now]}
        /\ lastRes' = Res("exchange", "POST /api/auth/google", NoHeader, 200,
                          "", TRUE, NoClaims, token, e.user)
        /\ exchanges' = exchanges \ {e}

\* the request arrives; without req.body.user both user.uid reads throw and
\* the outer catch answers 500
ExchangeStart(body) ==
    /\ started < MaxExchanges
    /\ started' = started + 1
    /\ IF body.hasUser
       THEN /\ exchanges' = exchanges \cup
                  {[id |-> started + 1, user |-> body.user, pc |-> "find",
                    doc |-> 0, stamp |-> 0]}
            /\ UNCHANGED lastRes
       ELSE /\ lastRes' = Res("exchange", "POST /api/auth/google", NoHeader,
                              500, "Authentication failed", TRUE, NoClaims,
                              Garbage, NoIdentity)
            /\ UNCHANGED exchanges
    /\ UNCHANGED <<now, users, issued, clientVars, serviceVars>>

\* variant: without the inner try/catch a failed lookup reaches the outer
\* catch
ExchangeFind_Abort(e, dbOk) ==
    /\ e \in exchanges /\ e.pc = "find"
    /\ IF ~dbOk
       THEN /\ lastRes' = Res("exchange", "POST /api/auth/google", NoHeader,
                              500, "Authentication failed", TRUE, NoClaims,
                              Garbage, e.user)
            /\ exchanges' = exchanges \ {e}
            /\ UNCHANGED issued
       ELSE LET i == FindOne(users, e.user.uid)
            IN  /\ exchanges' = (exchanges \ {e}) \cup
                       {[e EXCEPT !.pc = IF i = 0 THEN "saveNew"
                                         ELSE "saveUpd",
                                  !.doc = i, !.stamp = now]}
                /\ UNCHANGED <<issued, lastRes>>
    /\ UNCHANGED <<now, users, started, clientVars, serviceVars>>

\* await User.findOne settles: a failure is caught and the token is issued;
\* otherwise the document to save is prepared
ExchangeFind(e, dbOk) ==
    /\ e \in exchanges /\ e.pc = "find"
    /\ IF ~dbOk
       THEN ExchangeRespond(e)
       ELSE LET i == FindOne(users, e.user.uid)
            IN  /\ exchanges' = (exchanges \ {e}) \cup
                       {[e EXCEPT !.pc = IF i = 0 THEN "saveNew"
                                         ELSE "saveUpd",
                                  !.doc = i, !.stamp = now]}
                /\ UNCHANGED <<issued, lastRes>>
    /\ UNCHANGED <<now, users, started, clientVars, serviceVars>>

\* await dbUser.save() settles; the token is issued whatever the outcome
ExchangeSave(e, dbOk) ==
    /\ e \in exchanges /\ e.pc \in {"saveNew", "saveUpd"}
    /\ users' = IF ~dbOk THEN users
                ELSE IF e.pc = "saveNew"
                THEN SaveNew(users, NewUser(e.user, e.stamp))
                ELSE SaveUpdate(users, e.doc, e.user, e.stamp)
    /\ ExchangeRespond(e)
    /\ UNCHANGED <<now, started, clientVars, serviceVars>>

\* ------------------------------------------------------------------------
\* Backend: protected routes
\* ------------------------------------------------------------------------

\* tokens a client may present: issued ones, issued ones re-signed with
\* another secret, and garbage
Presentable ==
    {r.token : r \in issued}
        \cup {[r.token EXCEPT !.sig = "another-secret"] : r \in issued}
        \cup {Garbage}

Headers == {NoHeader, BearerOnly} \cup {Bearer(t) : t \in Presentable}

\* a request to a protected route: verifyToken, then the route handler
Request(route, header) ==
    /\ LET v == verifyToken(header, now)
       IN  lastRes' = Res("request", route, header, v.status, v.error, v.next,
                          v.user, Garbage, NoIdentity)
    /\ UNCHANGED <<now, users, exchanges, started, issued, clientVars, serviceVars>>

\* time passes: the clock is read once per lifetime of a token, so that a
\* token is presented at the instant it was issued and at the instant it
\* expires
Tick ==
    /\ now + ExpiresIn <= MaxTime
    /\ now' = now + ExpiresIn
    /\ lastRes' = Res("tick", "", NoHeader, 0, "", FALSE, NoClaims, Garbage,
                      NoIdentity)
    /\ UNCHANGED <<users, exchanges, started, issued, clientVars, serviceVars>>

BackendNext ==
    \/ \E body \in Bodies : ExchangeStart(body)
    \/ \E e \in exchanges, dbOk \in BOOLEAN : ExchangeFind(e, dbOk)
    \/ \E e \in exchanges, dbOk \in BOOLEAN : ExchangeSave(e, dbOk)
    \/ \E route \in ProtectedRoutes, header \in Headers :
           Request(route, header)
    \/ Tick

\* ------------------------------------------------------------------------
\* Backend: the fallback mind map
\* ------------------------------------------------------------------------
\* A text is the sequence of its characters; a label built from a template
\* is the sequence of the template's pieces.

NL == "\n"
WhiteSpace == {" ", NL}

\* text.split("\n")
RECURSIVE Split(_)
Split(text) ==
    IF \A i \in 1..Len(text) : text[i] /= NL
    THEN <<text>>
    ELSE LET k == CHOOSE i \in 1..Len(text) :
                      /\ text[i] = NL
                      /\ \A j \in 1..(i - 1) : text[j] /= NL
         IN  <<SubSeq(text, 1, k - 1)>>
                 \o Split(SubSeq(text, k + 1, Len(text)))

\* line.trim()
RECURSIVE trim(_)
trim(line) ==
    IF line = <<>> THEN line
    ELSE IF Head(line) \in WhiteSpace THEN trim(Tail(line))
    ELSE IF line[Len(line)] \in WhiteSpace
         THEN trim(SubSeq(line, 1, Len(line) - 1))
    ELSE line

\* array.slice(0, n)
slice(array, n) == SubSeq(array, 1, IF Len(array) < n THEN Len(array) ELSE n)

\* the six topics used when the syllabus has no non-blank line
DefaultTopics(subjectName) ==
    << <<"Introduction to ", subjectName>>,
       <<"Fundamentals of ", subjectName>>,
       <<"Core Concepts">>,
       <<"Advanced Topics">>,
       <<"Applications">>,
       <<"Future Trends">> >>

\* variant: every non-blank line of the syllabus becomes a topic
Topics_NoSlice(subjectName, syllabus) ==
    LET lines == SelectSeq(Split(syllabus), LAMBDA line : trim(line) /= <<>>)
    IN  IF Len(lines) = 0 THEN DefaultTopics(subjectName) ELSE lines

\* the topics of the fallback mind map: the first six non-blank lines of
\* the syllabus, or the default topics
Topics(subjectName, syllabus) ==
    LET lines == slice(SelectSeq(Split(syllabus),
                                 LAMBDA line : trim(line) /= <<>>), 6)
    IN  IF Len(lines) = 0 THEN DefaultTopics(subjectName) ELSE lines

subtopics == <<"Basics", "Advanced", "Practice">>

Node(id, label, type, level, parent) ==
    [id |-> id, label |-> label, type |-> type, level |-> level,
     parent |-> parent, children |-> <<>>]

Edge(source, target) ==
    [id |-> "edge_" \o source \o "_" \o target,
     source |-> source, target |-> target, type |-> "default"]

\* nodes.find((n) => n.id === id), then children.push(child) on the node
\* found
PushChild(nodes, id, child) ==
    IF \A i \in 1..Len(nodes) : nodes[i].id /= id
    THEN nodes
    ELSE LET k == CHOOSE i \in 1..Len(nodes) :
                      /\ nodes[i].id = id
                      /\ \A j \in 1..(i - 1) : nodes[j].id /= id
         IN  [nodes EXCEPT ![k].children = Append(@, child)]

\* one run of the body of subtopics.forEach
PushSubtopic(map, nodeId, subIndex) ==
    LET subNodeId == nodeId \o "_sub_" \o ToString(subIndex)
    IN  [map EXCEPT
            !.nodes = PushChild(
                          Append(@, Node(subNodeId, <<subtopics[subIndex + 1]>>,
                                         "subtopic", 2, nodeId)),
                          nodeId, subNodeId),
            !.edges = Append(@, Edge(nodeId, subNodeId))]

RECURSIVE forEachSubtopic(_, _, _)
forEachSubtopic(map, nodeId, subIndex) ==
    IF subIndex >= Len(subtopics) THEN map
    ELSE forEachSubtopic(PushSubtopic(map, nodeId, subIndex), nodeId,
                         subIndex + 1)

\* one run of the body of topics.forEach
PushTopic(map, topic, index) ==
    LET nodeId == "topic_" \o ToString(index + 1)
        label == IF trim(topic) /= <<>> THEN trim(topic)
                 ELSE <<"Topic ", ToString(index + 1)>>
        withTopic ==
            [map EXCEPT
                !.nodes = Append([@ EXCEPT ![1].children = Append(@, nodeId)],
                                 Node(nodeId, label, "topic", 1, "root")),
                !.edges = Append(@, Edge("root", nodeId))]
    IN  IF index < 3 THEN forEachSubtopic(withTopic, nodeId, 0)
        ELSE withTopic

RECURSIVE forEachTopic(_, _, _)
forEachTopic(map, topics, index) ==
    IF index >= Len(topics) THEN map
    ELSE forEachTopic(PushTopic(map, topics[index + 1], index), topics,
                      index + 1)

\* createFallbackMindMap(subjectName, syllabus); the positions and the
\* content texts of the nodes are left out
createFallbackMindMap(subjectName, syllabus) ==
    forEachTopic(
        [title |-> subjectName,
         nodes |-> <<Node("root", <<subjectName>>, "root", 0, Null)>>,
         edges |-> <<>>],
        Topics(subjectName, syllabus), 0)

\* ------------------------------------------------------------------------
\* Backend: the AI routes
\* ------------------------------------------------------------------------

AiRoutes == {"podcast", "mindmap", "chat"}

\* the models of generatePodcastScript, of POST /api/mindmap/generate and
\* of POST /api/chat/groq, in the order of the source
modelsToTry(route) ==
    IF route = "podcast"
    THEN <<"llama-3.1-8b-instant", "llama3-8b-8192", "mixtral-8x7b-32768">>
    ELSE IF route = "mindmap"
    THEN <<"llama-3.1-8b-instant", "llama3-8b-8192", "llama3-70b-8192",
           "mixtral-8x7b-32768", "gemma-7b-it">>
    ELSE <<"llama-3.1-8b-instant", "llama3-8b-8192", "mixtral-8x7b-32768",
           "gemma-7b-it">>

\* A completion is rejected, or carries a content: a text, written as the
\* sequence of its tokens. The empty text stands for a missing content too:
\* the three loops treat undefined, null and "" alike.
NoText == <<>>
Rejected == [rejected |-> TRUE, content |-> NoText]
Fulfilled(content) == [rejected |-> FALSE, content |-> content]

Contents ==
    { NoText,
      <<" ">>,
      <<"{", "nodes", "}">>,
      <<"{", "}">>,
      <<"Here:", "{", "nodes:[]", "}", "Enjoy">>,
      <<"{", "nodes:[null]", "}">>,
      <<"{", "nodes:[{}]", "}">> }

Completions == {Rejected} \cup {Fulfilled(c) : c \in Contents}

\* JavaScript truthiness of a text
TruthyText(text) == text /= NoText

\* responseText.match(/\{[\s\S]*\}/): the text from the first "{" to the
\* last "}", or no match
jsonMatch(text) ==
    LET opens == {i \in 1..Len(text) : text[i] = "{"}
        closes == {j \in 1..Len(text) :
                       text[j] = "}" /\ \E i \in opens : i < j}
    IN  IF closes = {}
        THEN [matched |-> FALSE, text |-> NoText]
        ELSE LET first == CHOOSE i \in opens : \A k \in opens : i <= k
                 last == CHOOSE j \in closes : \A k \in closes : k <= j
             IN  [matched |-> TRUE, text |-> SubSeq(text, first, last)]

\* the nodes a model may send: null and {}
NullNode == [isNull |-> TRUE, id |-> Null, label |-> NoText, type |-> Null,
             level |-> 0, parent |-> Null, children |-> <<>>]
BareNode == [NullNode EXCEPT !.isNull = FALSE]

IsNullNode(node) == "isNull" \in DOMAIN node /\ node.isNull

\* the value of a parsed object: its nodes member is an array or not
Parsed(isArray, nodes, title, edges) ==
    [threw |-> FALSE, isArray |-> isArray, nodes |-> nodes, title |-> title,
     edges |-> edges]

\* JSON.parse of a matched text
JSONparseObject(text) ==
    IF text = <<"{", "}">> THEN Parsed(FALSE, <<>>, Null, <<>>)
    ELSE IF text = <<"{", "nodes:[]", "}">>
    THEN Parsed(TRUE, <<>>, Null, <<>>)
    ELSE IF text = <<"{", "nodes:[null]", "}">>
    THEN Parsed(TRUE, <<NullNode>>, Null, <<>>)
    ELSE IF text = <<"{", "nodes:[{}]", "}">>
    THEN Parsed(TRUE, <<BareNode>>, Null, <<>>)
    ELSE [Parsed(FALSE, <<>>, Null, <<>>) EXCEPT !.threw = TRUE]

\* whether the loop of the route takes the completion as its result
Usable(route, completion) ==
    /\ ~completion.rejected
    /\ IF route = "podcast" THEN trim(completion.content) /= NoText
       ELSE IF route = "chat" THEN TruthyText(completion.content)
       ELSE /\ jsonMatch(completion.content).matched
            /\ ~JSONparseObject(jsonMatch(completion.content).text).threw

\* a mind map as the handler sends it: mindMapData.id = mindMapId
WithId(map, id) ==
    [title |-> map.title, nodes |-> map.nodes, edges |-> map.edges,
     id |-> id]

\* the nodes.map of validateAndEnhanceMindMap
Enhance(node, clock) ==
    [id |-> IF Truthy(node.id) THEN node.id
            ELSE "node_" \o ToString(clock) \o "_random",
     label |-> IF TruthyText(node.label) THEN node.label
               ELSE <<"Untitled Topic">>,
     type |-> IF Truthy(node.type) THEN node.type ELSE "topic",
     level |-> IF node.level /= 0 THEN node.level ELSE 1,
     parent |-> node.parent,
     children |-> node.children]

\* the syllabus of the valid body of POST /api/mindmap/generate
Syllabus == <<"a", NL, " ", NL, "b">>

\* the syllabus validateAndEnhanceMindMap makes up
GeneralTopics(subjectName) == <<"General topics for ", subjectName>>

\* createFallbackMindMap at the arguments the handlers call it with,
\* evaluated once
FallbackMindMaps ==
    [subjectName \in {"Biology"},
     syllabus \in {Syllabus, GeneralTopics("Biology")} |->
         createFallbackMindMap(subjectName, syllabus)]

\* whether validateAndEnhanceMindMap throws: its nodes.map reads the
\* members of every node, and a null node has none
validateThrows(parsed) ==
    /\ parsed.isArray
    /\ \E i \in 1..Len(parsed.nodes) : IsNullNode(parsed.nodes[i])

\* what validateAndEnhanceMindMap(mindMapData, subjectName) returns
validateAndEnhanceMindMap(parsed, subjectName, clock) ==
    IF ~parsed.isArray
    THEN FallbackMindMaps[subjectName, GeneralTopics(subjectName)]
    ELSE [title |-> parsed.title,
          nodes |-> [i \in 1..Len(parsed.nodes) |->
                         Enhance(parsed.nodes[i], clock)],
          edges |-> parsed.edges]

\* the script returned when no model gave one
FallbackScript(topicTitle, content) ==
    <<"Welcome to your learning journey with ", topicTitle>> \o content

\* the chat answer sent when no model gave one
FallbackResponse(message) ==
    <<"I understand you're asking about ">> \o message

\* ------------------------------------------------------------------------
\* Backend: the AI requests and the MindMap collection
\* ------------------------------------------------------------------------

\* the bodies of the requests: a subject name (or topic title) and a text
\* (the syllabus, the chat message, the content to narrate)
ServiceBodies(route) ==
    IF route = "mindmap"
    THEN [subjectName : {"", "Biology"},
          text : {NoText, Syllabus}]
    ELSE IF route = "chat"
    THEN [subjectName : {"Biology"}, text : {NoText, <<" ">>, <<"a">>}]
    ELSE [subjectName : {"Cells"}, text : {<<"a">>}]

NoMindMap == [title |-> Null, nodes |-> <<>>, edges |-> <<>>, id |-> Null]
NoDocument == [_id |-> Null, user_uid |-> Null, subject_name |-> Null,
               syllabus |-> NoText, mindmap_data |-> NoMindMap]

NoJob == [route |-> Null, uid |-> Null, subjectName |-> Null,
          text |-> NoText, called |-> <<>>, won |-> FALSE,
          pc |-> "idle",
          mindMapData |-> [title |-> Null, nodes |-> <<>>, edges |-> <<>>]]

Reply(route, uid, id, status, error, called, won, text, mindMap, doc, list) ==
    [route |-> route, uid |-> uid, id |-> id, status |-> status,
     error |-> error, called |-> called, won |-> won, text |-> text,
     mindMap |-> mindMap, doc |-> doc, list |-> list]

\* createFallbackMindMap has returned nothing yet
NotReturned == [title |-> Null, nodes |-> <<>>, edges |-> <<>>]

RoutesIdle ==
    /\ mindmaps = <<>>
    /\ minted = 0
    /\ job = NoJob
    /\ reply = Reply(Null, Null, Null, 0, "", <<>>, FALSE, NoText, NoMindMap,
                     NoDocument, <<>>)

ServiceIdle ==
    /\ RoutesIdle
    /\ arguments = [subjectName |-> Null, lines |-> <<>>]
    /\ returned = NotReturned

\* the ids the MindMap collection assigns, as _id.toString() gives them
MapIds == {ToString(i) : i \in 1..MaxMaps}
TemporaryId == "Date.now()"

\* new MindMap({...}).save(): the collection gets one more document, which
\* keeps the members it was built with and has an id of its own
MindMapSave(docs, id, uid, subjectName, syllabus, data) ==
    Append(docs, [_id |-> id, user_uid |-> uid, subject_name |-> subjectName,
                  syllabus |-> syllabus, mindmap_data |-> data])

\* variant: the filter names the document id alone
MatchesFilter_IdOnly(doc, id, uid) == doc._id = id

\* whether a document matches the filter {_id: id, user_uid: uid}
MatchesFilter(doc, id, uid) == doc._id = id /\ doc.user_uid = uid

\* MindMap.find({user_uid}).select("_id subject_name created_at")
\*     .sort({created_at: -1}), with _id renamed to id
RECURSIVE FindOwned(_, _)
FindOwned(docs, uid) ==
    IF docs = <<>> THEN <<>>
    ELSE LET rest == FindOwned(Tail(docs), uid)
         IN  IF Head(docs).user_uid = uid
             THEN Append(rest, [id |-> Head(docs)._id,
                                subject_name |-> Head(docs).subject_name])
             ELSE rest

\* the request is received: the body is validated and the loop over the
\* models begins; only POST /api/mindmap/generate reads req.user
AiStart(route, uid, body) ==
    /\ job.pc = "idle"
    /\ route = "mindmap" => minted < MaxMaps
    /\ LET invalid ==
               IF route = "mindmap"
               THEN ~Truthy(body.subjectName) \/ ~TruthyText(body.text)
               ELSE IF route = "chat"
               THEN ~TruthyText(body.text) \/ trim(body.text) = NoText
               ELSE FALSE
           error == IF route = "mindmap"
                    THEN "Subject name and syllabus are required"
                    ELSE "Message is required"
       IN  IF invalid
           THEN /\ reply' = Reply(route, Null, Null, 400, error, <<>>, FALSE,
                                  NoText, NoMindMap, NoDocument, <<>>)
                /\ job' = job
           ELSE /\ job' = [NoJob EXCEPT !.route = route,
                                        !.uid = IF route = "mindmap" THEN uid
                                                ELSE Null,
                                        !.subjectName = body.subjectName,
                                        !.text = body.text, !.pc = "loop"]
                /\ reply' = reply
    /\ UNCHANGED <<mindmaps, minted, now, users, exchanges, started, issued,
                   lastRes, clientVars,
                   treeVars>>

\* what the handler does when its loop has ended; won tells whether the
\* last completion was taken as the result
AfterLoop(called, completion, won) ==
    IF job.route = "podcast"
    THEN /\ reply' = Reply("podcast", job.uid, Null, 200, "", called, won,
                           IF won THEN trim(completion.content)
                           ELSE FallbackScript(job.subjectName, job.text),
                           NoMindMap, NoDocument, <<>>)
         /\ job' = NoJob
    ELSE IF job.route = "chat"
    THEN /\ reply' = Reply("chat", job.uid, Null, 200, "", called, won,
                           IF won THEN completion.content
                           ELSE FallbackResponse(job.text),
                           NoMindMap, NoDocument, <<>>)
         /\ job' = NoJob
    ELSE LET fallback == FallbackMindMaps[job.subjectName, job.text]
             \* the nodes of the fallback are objects: only a parsed
             \* completion makes validateAndEnhanceMindMap throw
             mindMapData ==
                 IF won
                 THEN JSONparseObject(jsonMatch(completion.content).text)
                 ELSE Parsed(TRUE, fallback.nodes, fallback.title,
                             fallback.edges)
         IN  IF won /\ validateThrows(mindMapData)
             THEN /\ job' = NoJob
                  /\ reply' = Reply("mindmap", job.uid, Null, 200, "", called,
                                    won, NoText,
                                    WithId(fallback, TemporaryId),
                                    NoDocument, <<>>)
             ELSE /\ reply' = reply
                  /\ job' = [job EXCEPT
                                 !.called = called,
                                 !.won = won,
                                 !.pc = "save",
                                 !.mindMapData =
                                     validateAndEnhanceMindMap(
                                         mindMapData, job.subjectName, now)]

\* variant: the loop goes on after a result was taken
CallModel_NoBreak(completion) ==
    /\ job.pc = "loop"
    /\ LET models == modelsToTry(job.route)
           called == Append(job.called, models[Len(job.called) + 1])
           won == Usable(job.route, completion)
       IN  IF Len(called) < Len(models)
           THEN /\ job' = [job EXCEPT !.called = called, !.won = won]
                /\ reply' = reply
           ELSE AfterLoop(called, completion, won)
    /\ UNCHANGED <<mindmaps, minted, now, users, exchanges, started, issued,
                   lastRes, clientVars,
                   treeVars>>

\* one turn of the loop: the next model is called and its completion is
\* looked at; the loop ends with a usable completion or with the last model
CallModel(completion) ==
    /\ job.pc = "loop"
    /\ LET models == modelsToTry(job.route)
           called == Append(job.called, models[Len(job.called) + 1])
           won == Usable(job.route, completion)
       IN  IF ~won /\ Len(called) < Len(models)
           THEN /\ job' = [job EXCEPT !.called = called, !.won = won]
                /\ reply' = reply
           ELSE AfterLoop(called, completion, won)
    /\ UNCHANGED <<mindmaps, minted, now, users, exchanges, started, issued,
                   lastRes, clientVars,
                   treeVars>>

\* POST /api/mindmap/generate, after the loop: the mind map is saved, or
\* gets a temporary id when the database fails, and is sent
MindMapStore(dbOk) ==
    /\ job.pc = "save"
    /\ LET id == IF dbOk THEN ToString(minted + 1) ELSE TemporaryId
       IN  /\ mindmaps' = IF dbOk
                          THEN MindMapSave(mindmaps, id, job.uid,
                                           job.subjectName, job.text,
                                           job.mindMapData)
                          ELSE mindmaps
           /\ minted' = IF dbOk THEN minted + 1 ELSE minted
           /\ reply' = Reply("mindmap", job.uid, Null, 200, "", job.called,
                             job.won, NoText,
                             WithId(job.mindMapData, id),
                             NoDocument, <<>>)
    /\ job' = NoJob
    /\ UNCHANGED <<now, users, exchanges, started, issued, lastRes,
                   clientVars,
                   treeVars>>

\* GET /api/mindmap/list
MindMapList(uid, dbOk) ==
    /\ reply' = Reply("list", uid, Null, 200, "", <<>>, FALSE, NoText,
                      NoMindMap, NoDocument,
                      IF dbOk THEN FindOwned(mindmaps, uid) ELSE <<>>)
    /\ UNCHANGED <<mindmaps, minted, job, now, users, exchanges, started,
                   issued, lastRes, clientVars,
                   treeVars>>

\* GET /api/mindmap/:id
MindMapGet(uid, id, dbOk) ==
    /\ LET found == {i \in 1..Len(mindmaps) :
                         MatchesFilter(mindmaps[i], id, uid)}
       IN  reply' =
               IF ~dbOk
               THEN Reply("get", uid, id, 500, "Failed to fetch mind map",
                          <<>>, FALSE, NoText, NoMindMap, NoDocument, <<>>)
               ELSE IF found = {}
               THEN Reply("get", uid, id, 404, "Mind map not found", <<>>,
                          FALSE, NoText, NoMindMap, NoDocument, <<>>)
               ELSE Reply("get", uid, id, 200, "", <<>>, FALSE, NoText,
                          NoMindMap,
                          mindmaps[CHOOSE i \in found :
                                       \A k \in found : i <= k],
                          <<>>)
    /\ UNCHANGED <<mindmaps, minted, job, now, users, exchanges, started,
                   issued, lastRes, clientVars,
                   treeVars>>

\* DELETE /api/mindmap/:id
MindMapDelete(uid, id, dbOk) ==
    /\ LET found == {i \in 1..Len(mindmaps) :
                         MatchesFilter(mindmaps[i], id, uid)}
       IN  IF ~dbOk
           THEN /\ reply' = Reply("delete", uid, id, 500,
                                  "Failed to delete mind map", <<>>, FALSE,
                                  NoText, NoMindMap, NoDocument, <<>>)
                /\ mindmaps' = mindmaps
           ELSE IF found = {}
           THEN /\ reply' = Reply("delete", uid, id, 404,
                                  "Mind map not found or you don't have permission to delete it",
                                  <<>>, FALSE, NoText, NoMindMap, NoDocument,
                                  <<>>)
                /\ mindmaps' = mindmaps
           ELSE LET k == CHOOSE i \in found : \A j \in found : i <= j
                IN  /\ reply' = Reply("delete", uid, id, 200, "", <<>>, FALSE,
                                      NoText, NoMindMap, NoDocument, <<>>)
                    /\ mindmaps' = [i \in 1..(Len(mindmaps) - 1) |->
                                        IF i < k THEN mindmaps[i]
                                        ELSE mindmaps[i + 1]]
    /\ UNCHANGED <<minted, job, now, users, exchanges, started, issued,
                   lastRes, clientVars,
                   treeVars>>

\* lines of a syllabus: an empty one, a blank one, one with a word
Lines == {<<>>, <<" ">>, <<" ", "a">>}

\* lines.join("\n")
RECURSIVE Join(_)
Join(lines) ==
    IF Len(lines) = 0 THEN <<>>
    ELSE IF Len(lines) = 1 THEN lines[1]
    ELSE lines[1] \o <<NL>> \o Join(Tail(lines))

\* the arguments createFallbackMindMap is applied to: a subject name and
\* a syllabus of up to MaxLines lines
TreeArguments ==
    [subjectName : {"", "Biology"},
     lines : UNION {[1..n -> Lines] : n \in 0..MaxLines}]

\* createFallbackMindMap(subjectName, syllabus) is called and returns
Build ==
    /\ returned = NotReturned
    /\ returned' = createFallbackMindMap(arguments.subjectName,
                                         Join(arguments.lines))
    /\ UNCHANGED <<arguments, mindmaps, minted, job, reply, now, users,
                   exchanges, started, issued, lastRes, clientVars>>

AiNext ==
    \/ \E route \in AiRoutes, uid \in Uids :
           \E body \in ServiceBodies(route) : AiStart(route, uid, body)
    \/ \E completion \in Completions : CallModel(completion)
    \/ \E dbOk \in BOOLEAN : MindMapStore(dbOk)

ServiceNext ==
    \/ AiNext
    \/ \E uid \in Uids, dbOk \in BOOLEAN : MindMapList(uid, dbOk)
    \/ \E uid \in Uids, id \in MapIds, dbOk \in BOOLEAN :
           MindMapGet(uid, id, dbOk)
    \/ \E uid \in Uids, id \in MapIds, dbOk \in BOOLEAN :
           MindMapDelete(uid, id, dbOk)

\* ------------------------------------------------------------------------
\* Specifications
\* ------------------------------------------------------------------------

\* the client alone: the backend's answers are the Responses
Init == ClientInit /\ BackendInit /\ ServiceIdle

Next == ClientNext /\ UNCHANGED backendVars

Spec == Init /\ [][Next]_vars

\* the client with its scheduling: React runs the effect after the first
\* render, the identity provider delivers the snapshots it queued, and
\* every exchange started by the callback gets an answer or a rejection
FairSpec ==
    /\ Spec
    /\ WF_vars(Mount /\ UNCHANGED backendVars)
    /\ WF_vars(DeliverEvent /\ UNCHANGED backendVars)
    /\ WF_vars(/\ \E c \in calls, resp \in Responses : AutoReturn(c, resp)
               /\ UNCHANGED backendVars)

\* the page before it is loaded, for the specification of the backend
ClientIdle ==
    /\ ClientInit
    /\ store = EmptyStore
    /\ currentUser = Null
    /\ pathname = "/"

\* the state when the backend starts
IdleInit == ClientIdle /\ BackendInit /\ ServiceIdle

\* the backend alone
BackendSpec == IdleInit /\ [][BackendNext]_vars

\* the AI routes and the mind-map routes alone
ServiceSpec == IdleInit /\ [][ServiceNext]_vars

\* createFallbackMindMap alone, applied to each of the TreeArguments
TreeInit ==
    /\ ClientIdle /\ BackendInit /\ RoutesIdle
    /\ arguments \in TreeArguments
    /\ returned = NotReturned

TreeSpec == TreeInit /\ [][Build]_vars

\* the AI routes alone
AiSpec == IdleInit /\ [][AiNext]_vars

\* the AI routes with their scheduling: every call of a model is fulfilled
\* or rejected, and so is every save
AiFairSpec ==
    /\ AiSpec
    /\ WF_vars(\E completion \in Completions : CallModel(completion))
    /\ WF_vars(\E dbOk \in BOOLEAN : MindMapStore(dbOk))

\* ------------------------------------------------------------------------
\* Properties of the client session
\* ------------------------------------------------------------------------

StoreEmpty == store.authToken = Null /\ store.user = Null

\* auth.signOut() has been called by a logout() that is awaiting it
SignOutRequested ==
    \E c \in calls : c.kind = "logout"
                     /\ c.stage \in {"signOutTry", "signOutCatch"}

\* the steps that end a run of the onAuthStateChanged callback
CallbackEnds == {"eventNoop", "eventSignedOut", "autoReturn"}

\* C1: in every reachable state, isAuthenticated implies that user is
\* non-null and that a non-empty token is in the Token Store.
C1_AuthenticatedHasUserAndToken ==
    isAuthenticated => (user /= Null /\ Truthy(store.authToken))

\* C2: after any client operation whose response had status 401, both Token
\* Store keys are absent and the hard navigation to the entry page has been
\* requested.
C2_UnauthorizedClearsStore ==
    lastOp.status = 401 => (StoreEmpty /\ lastOp.nav = "hard")

\* C3 (as claimed): once the backend call of logout() has returned, user is
\* null, isAuthenticated is false, both Token Store keys are removed, the
\* identity-provider sign-out has been requested and nothing is thrown.
C3_LogoutAlwaysSignsOut ==
    lastOp.op = "logoutReturn" =>
        /\ user = Null /\ ~isAuthenticated /\ StoreEmpty
        /\ SignOutRequested
        /\ ~lastOp.threw

\* C3 (amended): once the backend call of logout() has returned, with any
\* outcome, user is null, isAuthenticated is false, both Token Store keys
\* are removed, nothing is thrown, and the identity-provider sign-out has
\* been requested whenever the identity provider has a current user.
C3_LogoutTearsDown ==
    lastOp.op = "logoutReturn" =>
        /\ user = Null /\ ~isAuthenticated /\ StoreEmpty
        /\ (currentUser /= Null => SignOutRequested)
        /\ ~lastOp.threw

\* C3 witness: logout() whose backend call failed, with a provider user
C3_Witness ==
    /\ lastOp.op = "logoutReturn" /\ lastOp.status \in {0, 401, 500}
    /\ SignOutRequested

\* C4: after logout() has torn the session down, and until somebody signs
\* in again, the session stays unauthenticated and the Token Store empty,
\* whatever identity-event callbacks run or resume.
C4_NoResurrection ==
    sessionEnded => (~isAuthenticated /\ StoreEmpty)

LogoutReturned ==
    \E c \in calls : c.kind = "logout" /\ c.stage = "backend" /\ c \notin calls'

\* C9: logout() in a session that is already unauthenticated with an empty
\* Token Store throws nothing, leaves user, isAuthenticated, loading and the
\* Token Store unchanged and requests no navigation.
C9_LogoutIdempotent ==
    [][(LogoutReturned /\ user = Null /\ ~isAuthenticated /\ StoreEmpty) =>
           /\ user' = user /\ isAuthenticated' = isAuthenticated
           /\ loading' = loading /\ store' = store
           /\ ~lastOp'.threw /\ lastOp'.nav = "none"]_vars

\* the Token Store holds a cached user / a non-empty token
HasCachedUser == \E u \in Uids : store.user = JSONstringify(u)
HasToken == store.authToken /= Null /\ store.authToken /= ""

\* C10: right after construction the session is authenticated as the cached
\* user, with hasProcessedInitialAuth set, exactly when the Token Store holds
\* both a cached user and a non-empty token; otherwise it is unauthenticated.
C10_CachedSessionIffBoth ==
    lastOp.op = "mount" =>
        IF HasCachedUser /\ HasToken
        THEN /\ isAuthenticated /\ hasProcessedInitialAuth
             /\ store.user = JSONstringify(user)
        ELSE ~isAuthenticated /\ user = Null /\ ~hasProcessedInitialAuth

\* C10 witness: constructed from a Token Store holding both
C10_Witness ==
    lastOp.op = "mount" /\ isAuthenticated /\ HasCachedUser /\ HasToken

\* the success response of POST /auth/google: 200 with token and user
ExchangeSuccess == [status |-> 200, body |-> "token"]

\* the Token Store holds the token and the cached user of uid u
StoreHolds(st, u) ==
    /\ st.authToken = TokenFor(u) /\ Truthy(st.authToken)
    /\ st.user = JSONstringify(u) /\ JSONparse(st.user) = u

\* C11: when the exchange started by the callback for a non-null identity
\* with uid x (delivered while hasProcessedInitialAuth was false) succeeds,
\* the Token Store then holds a non-empty token and the cached user x, the
\* session is authenticated as x and hasProcessedInitialAuth is true.
C11_AutoExchangeSuccess ==
    [][\A c \in calls :
           AutoReturn(c, ExchangeSuccess) =>
               /\ StoreHolds(store', c.userData)
               /\ user' = c.userData /\ isAuthenticated'
               /\ hasProcessedInitialAuth']_vars

\* C11 witness: the automatic exchange succeeded and set the session up
C11_Witness ==
    /\ lastOp.op = "autoReturn" /\ lastOp.status = 200
    /\ user \in Uids /\ StoreHolds(store, user)
    /\ isAuthenticated /\ hasProcessedInitialAuth

\* C12 (as claimed): a login() that fails (no response, an error status, a
\* response without a token) throws and leaves user, isAuthenticated,
\* hasProcessedInitialAuth and the Token Store as they were; a login() that
\* succeeds stores token and user and authenticates the session.
C12_LoginFailureChangesNothing ==
    [][\A c \in calls, resp \in Responses :
           LoginReturn(c, resp) =>
               IF resp = ExchangeSuccess
               THEN /\ StoreHolds(store', c.userData)
                    /\ user' = c.userData /\ isAuthenticated'
                    /\ ~lastOp'.threw
               ELSE /\ lastOp'.threw
                    /\ UNCHANGED <<user, isAuthenticated,
                                   hasProcessedInitialAuth, store>>]_vars

\* C12 (amended): a login() that fails throws and leaves user,
\* isAuthenticated and hasProcessedInitialAuth as they were; the Token Store
\* is left as it was unless the answer had status 401, in which case both
\* keys are removed and the hard navigation is requested; a login() that
\* succeeds stores token and user and authenticates the session.
C12_LoginFailure ==
    [][\A c \in calls, resp \in Responses :
           LoginReturn(c, resp) =>
               IF resp = ExchangeSuccess
               THEN /\ StoreHolds(store', c.userData)
                    /\ user' = c.userData /\ isAuthenticated'
                    /\ ~lastOp'.threw
               ELSE /\ lastOp'.threw
                    /\ UNCHANGED <<user, isAuthenticated,
                                   hasProcessedInitialAuth>>
                    /\ IF resp.status = 401
                       THEN StoreEmpty' /\ lastOp'.nav = "hard"
                       ELSE UNCHANGED store]_vars

\* C12 witness: a login() got a response without a token in a session that
\* was authenticated from the cache, and the session is as it was
C12_Witness ==
    /\ lastOp.op = "loginReturn" /\ lastOp.status = 200 /\ lastOp.threw
    /\ isAuthenticated /\ HasCachedUser /\ HasToken

\* no callback run, login() or logout() is pending or under way
Quiescent == effectRan /\ calls = {} /\ events = <<>>

\* C15: whenever every identity-event callback and every login()/logout()
\* call so far has run to completion, isAuthenticated is true exactly when
\* the Token Store holds both a token and a cached user.
C15_QuiescentIff ==
    Quiescent => (isAuthenticated <=> (HasToken /\ HasCachedUser))

\* the steps of the onAuthStateChanged callback
CallbackSteps ==
    {"eventIgnored", "eventExchange", "eventSignedOut", "eventNoop",
     "autoReturn"}

\* C16: once the effect's cleanup has run, no step of the identity-event
\* callback, whether it starts then or resumes from an exchange that was in
\* flight, changes user, isAuthenticated, loading, hasProcessedInitialAuth
\* or the Token Store, or navigates.
C16_NoEffectAfterTeardown ==
    [][(effectRan /\ ~isComponentMounted /\ lastOp'.op \in CallbackSteps) =>
           UNCHANGED <<user, isAuthenticated, loading,
                       hasProcessedInitialAuth, store, pathname>>]_vars

\* the two Token Store keys are both present or both absent
Paired(st) == (st.authToken = Null) <=> (st.user = Null)

\* C17: if the page loads with the two Token Store keys both present or both
\* absent, they are both present or both absent in every state reached.
C17_KeysPaired == Paired(store) => []Paired(store)

\* C17 witness: a 401 answer removed both keys under an authenticated
\* session
C17_Witness ==
    /\ lastOp.op = "apiRequest" /\ lastOp.status = 401
    /\ isAuthenticated /\ hasProcessedInitialAuth /\ ~sessionEnded
    /\ StoreEmpty /\ events = <<>> /\ calls = {}

\* C20: a gateway request whose fetch obtained no response fails with the
\* "Network error" error, leaves the Token Store alone and requests no
\* navigation; a request that obtained a response never fails with that
\* error.
C20_NetworkErrorDistinct ==
    [][\A resp \in Responses :
           ApiRequest(resp) =>
               LET r == makeRequest(store, resp)
               IN  IF resp.status = 0
                   THEN /\ r.threw /\ r.err = "Network error"
                        /\ store' = store /\ lastOp'.nav = "none"
                   ELSE r.err /= "Network error"]_vars

\* this step is a run of the callback in the mounted component for the
\* identity snapshot u
Delivered(u) ==
    /\ isComponentMounted /\ events /= <<>> /\ Head(events) = u
    /\ DeliverEvent

\* C21: the callback starts an automatic exchange only for the first event
\* after subscription: no earlier run of the callback has ended (loading is
\* still true) and no earlier exchange is in flight.
C21_OnlyFirstEventExchanges ==
    [][(lastOp'.op = "eventExchange") =>
           /\ loading
           /\ ~\E c \in calls : c.kind = "auto"]_vars

\* C22: a null identity processed while hasProcessedInitialAuth is true
\* removes both Token Store keys, sets user to null, isAuthenticated to
\* false and hasProcessedInitialAuth to false; processed while it is false
\* it leaves the four unchanged.
C22_NullEvent ==
    [][Delivered(Null) =>
           IF hasProcessedInitialAuth
           THEN /\ StoreEmpty' /\ user' = Null /\ ~isAuthenticated'
                /\ ~hasProcessedInitialAuth'
           ELSE UNCHANGED <<user, isAuthenticated, hasProcessedInitialAuth,
                            store>>]_vars

\* C22 witness: the provider session ended under a session resolved from
\* the cache, and the session was torn down
C22_Witness ==
    /\ lastOp.op = "eventSignedOut" /\ StoreEmpty /\ user = Null
    /\ ~isAuthenticated /\ ~hasProcessedInitialAuth /\ ~loading

\* C23: a non-null identity processed while hasProcessedInitialAuth is true
\* starts no exchange and leaves user, isAuthenticated,
\* hasProcessedInitialAuth and the Token Store unchanged, whatever its uid.
C23_ResolvedEventNoop ==
    [][\A u \in Uids :
           (Delivered(u) /\ hasProcessedInitialAuth) =>
               /\ calls' = calls
               /\ UNCHANGED <<user, isAuthenticated, hasProcessedInitialAuth,
                              store>>]_vars

\* C23 witness: the session was resolved from the cache as x and the
\* identity of another user y was processed
C23_Witness ==
    /\ lastOp.op = "eventNoop" /\ hasProcessedInitialAuth
    /\ isAuthenticated /\ user = "x" /\ currentUser = "y"
    /\ StoreHolds(store, "x") /\ calls = {}

\* the responses for which the exchange call throws: no response, an error
\* status, a body that is not JSON
Failing(resp) == resp.status /= 200 \/ resp.body = "text"

\* C24 (as claimed): when the automatic exchange fails, user,
\* isAuthenticated, hasProcessedInitialAuth and the Token Store are left as
\* they were, nothing is thrown, no new exchange is started and loading is
\* false afterwards.
C24_AutoFailureChangesNothing ==
    [][\A c \in calls, resp \in Responses :
           (Failing(resp) /\ AutoReturn(c, resp)) =>
               /\ UNCHANGED <<user, isAuthenticated, hasProcessedInitialAuth,
                              store>>
               /\ ~lastOp'.threw /\ calls' = calls \ {c}
               /\ ~loading']_vars

\* C24 (amended): when the automatic exchange fails, user, isAuthenticated
\* and hasProcessedInitialAuth are left as they were, nothing is thrown and
\* no new exchange is started; the Token Store is left as it was unless the
\* answer had status 401, which removes both keys and requests the hard
\* navigation; loading is false afterwards if the component is still
\* mounted and unchanged otherwise.
C24_AutoFailure ==
    [][\A c \in calls, resp \in Responses :
           (Failing(resp) /\ AutoReturn(c, resp)) =>
               /\ UNCHANGED <<user, isAuthenticated, hasProcessedInitialAuth>>
               /\ ~lastOp'.threw /\ calls' = calls \ {c}
               /\ IF resp.status = 401
                  THEN StoreEmpty' /\ lastOp'.nav = "hard"
                  ELSE UNCHANGED store
               /\ IF isComponentMounted THEN ~loading'
                  ELSE UNCHANGED loading]_vars

\* C24 witness: the automatic exchange got no usable answer; the session
\* is unauthenticated and loading has ended
C24_Witness ==
    /\ lastOp.op = "autoReturn" /\ lastOp.status \in {0, 500}
    /\ ~isAuthenticated /\ user = Null /\ ~hasProcessedInitialAuth
    /\ ~loading /\ calls = {}

C27_NullEventTearsDown ==
    [][(Delivered(Null) /\ isAuthenticated) =>
           (~isAuthenticated' /\ user' = Null /\ StoreEmpty')]_vars

\* C28 (as claimed): once the callback has run for an event in the mounted
\* component, loading eventually becomes false.
C28_LoadingEnds ==
    (lastOp.op \in {"eventExchange", "eventNoop", "eventSignedOut"})
        ~> ~loading

\* C28 (amended): loading eventually becomes false, unless the component
\* is torn down before the run of the callback for the first event has
\* ended.
C28_LoadingEndsWhileMounted ==
    <>(~loading \/ (effectRan /\ ~isComponentMounted))

\* C28 witness: no cached session, a non-null first identity, the exchange
\* failed and loading has ended
C28_Witness ==
    /\ ~loading /\ isComponentMounted
    /\ lastOp.op = "autoReturn" /\ lastOp.status = 500
    /\ ~isAuthenticated /\ StoreEmpty /\ events = <<>>

\* ------------------------------------------------------------------------
\* Properties of the backend
\* ------------------------------------------------------------------------

\* the last response answers a request that carried token t
Presented(t) ==
    /\ lastRes.op = "request"
    /\ lastRes.header.kind = "bearer"
    /\ lastRes.header.token = t

\* C6: a token issued by the identity exchange for a claimed identity, when
\* presented to a protected route before seven days have passed since it was
\* issued, is accepted with exactly the claimed uid, email and displayName
\* attached to the request; presented at or after that time it is rejected.
C6_TokenRoundTrip ==
    \A r \in issued :
        Presented(r.token) =>
            IF now < r.at + ExpiresIn
            THEN /\ lastRes.handled
                 /\ lastRes.reqUser.uid = r.user.uid
                 /\ lastRes.reqUser.email = r.user.email
                 /\ lastRes.reqUser.displayName = r.user.displayName
            ELSE ~lastRes.handled /\ lastRes.status = 401

\* C6 witness: an issued token came back later, after the User Record of its
\* subject was updated by another exchange, and was accepted
C6_Witness ==
    \E r \in issued :
        /\ Presented(r.token) /\ lastRes.handled
        /\ \E i \in DOMAIN users :
               /\ users[i].firebase_uid = r.user.uid
               /\ users[i].display_name /= r.user.displayName

\* the header carries a token signed with the backend secret and unexpired
ValidBearer(header, clock) ==
    /\ header.kind = "bearer"
    /\ header.token.kind = "jwt"
    /\ header.token.sig = JWT_SECRET
    /\ clock < header.token.exp

\* C7: the handler of a protected route runs only for a request whose header
\* carries a token that verifies under the backend secret and is unexpired;
\* every other request is answered 401 and the handler does not run.
C7_HandlerOnlyWithValidToken ==
    (lastRes.op = "request" /\ lastRes.route \in ProtectedRoutes) =>
        /\ lastRes.handled => ValidBearer(lastRes.header, now)
        /\ ~ValidBearer(lastRes.header, now) =>
               (~lastRes.handled /\ lastRes.status = 401)

\* C7 witness: a token signed with another secret was turned away
C7_Witness ==
    /\ lastRes.op = "request" /\ lastRes.route = "POST /api/chat/groq"
    /\ lastRes.header.kind = "bearer"
    /\ lastRes.header.token.kind = "jwt"
    /\ lastRes.header.token.sig /= JWT_SECRET
    /\ ~lastRes.handled /\ lastRes.status = 401

\* C8: the User collection never holds two documents with the same subject
\* id.
C8_OneRecordPerSubject ==
    \A i, j \in DOMAIN users :
        users[i].firebase_uid = users[j].firebase_uid => i = j

\* the response is the success answer of the exchange for identity c, with
\* a token signed at time clock
IssuedFor(res, c, clock) ==
    /\ res.op = "exchange" /\ res.status = 200 /\ res.error = ""
    /\ res.token.kind = "jwt" /\ res.token.sig = JWT_SECRET
    /\ res.token.uid = c.uid /\ res.token.email = c.email
    /\ res.token.displayName = c.displayName
    /\ res.token.iat = clock /\ res.token.exp = clock + ExpiresIn
    /\ res.claimed = c

\* C13: when the lookup or the save of the User Record fails during an
\* exchange for a well-formed request, the exchange still answers with
\* success, a freshly signed token for the claimed uid, email and
\* displayName and the echo of the claimed identity; no error is reported
\* and the collection is as it was.
C13_PersistenceFailureNotFatal ==
    [][\A e \in exchanges :
           (ExchangeFind(e, FALSE) \/ ExchangeSave(e, FALSE)) =>
               /\ IssuedFor(lastRes', e.user, now)
               /\ users' = users]_vars

\* C13 witness: a token was issued although nothing could be stored
C13_Witness ==
    /\ lastRes.op = "exchange" /\ lastRes.status = 200
    /\ lastRes.claimed \in Claimed
    /\ IssuedFor(lastRes, lastRes.claimed, now)
    /\ users = <<>>

\* C14: an exchange request whose body lacks the claimed user record is
\* answered with a 4xx status and no token.
C14_MalformedBodyRejected ==
    (lastRes.op = "exchange" /\ lastRes.claimed = NoIdentity) =>
        /\ lastRes.status >= 400 /\ lastRes.status <= 499
        /\ lastRes.token = Garbage

\* the documents of before are all still there, with their subject id and
\* email
RecordsKept(old, new) ==
    /\ Len(new) >= Len(old)
    /\ \A i \in DOMAIN old :
           /\ new[i].firebase_uid = old[i].firebase_uid
           /\ new[i].email = old[i].email

\* C18: no step deletes a User Record or changes the subject id or email of
\* one; only the successful save of an exchange changes the collection; for
\* a subject that was found it changes nothing but display name, avatar and
\* timestamp of that subject's record, which become the claimed ones; for a
\* subject that was not found it adds exactly one record with the claimed
\* fields and touches no other.
C18_UpsertFrame ==
    [][/\ RecordsKept(users, users')
       /\ (users' /= users) =>
              \E e \in exchanges :
                  /\ e.pc \in {"saveNew", "saveUpd"} /\ e \notin exchanges'
                  /\ IF e.pc = "saveUpd"
                     THEN /\ Len(users') = Len(users)
                          /\ \A i \in DOMAIN users :
                                 IF i = e.doc
                                 THEN /\ users[i].firebase_uid = e.user.uid
                                      /\ users'[i].display_name =
                                             e.user.displayName
                                      /\ users'[i].photo_url = e.user.photoURL
                                 ELSE users'[i] = users[i]
                     ELSE /\ users' = Append(users, users'[Len(users')])
                          /\ Len(users') = Len(users) + 1
                          /\ LET d == users'[Len(users')]
                             IN  /\ d.firebase_uid = e.user.uid
                                 /\ d.email = e.user.email
                                 /\ d.display_name = e.user.displayName
                                 /\ d.photo_url = e.user.photoURL]_vars

\* C18 witness: the record of u1, created with one email, was updated by an
\* exchange that claimed another email, display name and avatar
C18_Witness ==
    \E i \in DOMAIN users :
        /\ users[i].firebase_uid = "u1" /\ users[i].email = "a@b.com"
        /\ users[i].display_name = "B" /\ users[i].photo_url = "p2"

\* why the token of a header fails verification at time clock, "none" when
\* it does not
FailureKind(header, clock) ==
    IF header.kind /= "bearer" THEN "none"
    ELSE IF header.token.kind /= "jwt" THEN "malformed"
    ELSE IF header.token.sig /= JWT_SECRET THEN "signature"
    ELSE IF clock >= header.token.exp THEN "expired"
    ELSE "none"

\* C19: two requests whose tokens fail for different reasons (expired,
\* malformed, signature invalid) are both answered 401, with different
\* error values.
C19_ThreeDistinctErrors ==
    [][(/\ lastRes.op = "request" /\ lastRes'.op = "request" /\ now' = now
        /\ FailureKind(lastRes.header, now) /= "none"
        /\ FailureKind(lastRes'.header, now) /= "none"
        /\ FailureKind(lastRes.header, now) /=
               FailureKind(lastRes'.header, now)) =>
           /\ lastRes.status = 401 /\ lastRes'.status = 401
           /\ lastRes.error /= lastRes'.error]_vars

\* ------------------------------------------------------------------------
\* Properties of the AI routes
\* ------------------------------------------------------------------------

IsPrefix(s, t) == Len(s) <= Len(t) /\ s = SubSeq(t, 1, Len(s))

\* an answer of an AI route to a request whose body was valid
AiAnswered == reply.route \in AiRoutes /\ reply.called /= <<>>

\* the models called so far are the first models of the list, in its order
CalledInOrder ==
    /\ job.pc /= "idle" => IsPrefix(job.called, modelsToTry(job.route))
    /\ reply.route \in AiRoutes =>
           IsPrefix(reply.called, modelsToTry(reply.route))

\* the answer sent when no model gave a usable completion is the fallback
\* of the route, and every model was called before
FallbackWhenAllFail ==
    AiAnswered /\ ~reply.won =>
        /\ reply.called = modelsToTry(reply.route)
        /\ \E body \in ServiceBodies(reply.route) :
               IF reply.route = "podcast"
               THEN reply.text = FallbackScript(body.subjectName, body.text)
               ELSE IF reply.route = "chat"
               THEN reply.text = FallbackResponse(body.text)
               ELSE /\ reply.mindMap.title = body.subjectName
                    /\ body.text = Syllabus
                    /\ reply.mindMap.edges =
                           FallbackMindMaps[body.subjectName, body.text].edges

\* the answer to a valid request is a success with a result: a text that
\* is not empty, or a mind map object
ResultNotEmpty ==
    /\ reply.route \in AiRoutes => reply.status \in {200, 400}
    /\ reply.route \in AiRoutes /\ reply.status = 400 => reply.called = <<>>
    /\ AiAnswered =>
           /\ reply.status = 200 /\ reply.error = ""
           /\ IF reply.route = "mindmap" THEN reply.mindMap.id /= Null
              ELSE reply.text /= NoText

\* a step that calls a model calls the next model of the list, and is
\* taken only while no completion was usable; nothing but the loop calls a
\* model
CallsNextModel ==
    job' /= job /\ job.pc /= "idle" =>
        LET called == IF job'.pc = "idle" THEN reply'.called ELSE job'.called
        IN  IF job.pc = "loop"
            THEN /\ ~job.won
                 /\ called = Append(job.called,
                                    modelsToTry(job.route)[Len(job.called) + 1])
            ELSE called = job.called

DocumentsOf(docs) == {docs[i] : i \in 1..Len(docs)}

\* the id is the id of a mind map of another user
Foreign(id, uid) ==
    \E doc \in DocumentsOf(mindmaps) : doc._id = id /\ doc.user_uid /= uid

\* a list answer names only mind maps of the caller
ListsOwn(uid) ==
    \A k \in 1..Len(reply'.list) :
        \E doc \in DocumentsOf(mindmaps) :
            doc._id = reply'.list[k].id /\ doc.user_uid = uid

\* a get answer carries a mind map only if it is the caller's
GetsOwn(uid, id) ==
    /\ reply'.status = 200 =>
           reply'.doc.user_uid = uid /\ reply'.doc._id = id
    /\ reply'.status /= 200 => reply'.doc = NoDocument

\* a step removes a mind map only as the delete request of its owner
RemovesOwn ==
    \A doc \in DocumentsOf(mindmaps) \ DocumentsOf(mindmaps') :
        /\ reply'.route = "delete" /\ reply'.status = 200
        /\ reply'.uid = doc.user_uid /\ reply'.id = doc._id

\* the answers a request for the mind map of another user gets when they
\* are among the statuses given, and the mind map stays
ForeignRequest(uid, id, statuses) ==
    Foreign(id, uid) =>
        /\ reply'.status \in statuses
        /\ reply'.doc = NoDocument
        /\ mindmaps' = mindmaps

\* the answer of the step, read from the response it leaves
Isolation(statuses) ==
    /\ RemovesOwn
    /\ reply'.route = "list" => ListsOwn(reply'.uid)
    /\ reply'.route = "get" =>
           /\ GetsOwn(reply'.uid, reply'.id)
           /\ ForeignRequest(reply'.uid, reply'.id, statuses)
    /\ reply'.route = "delete" =>
           ForeignRequest(reply'.uid, reply'.id, statuses)

\* C29 as stated: a get or a list returns only mind maps of the caller, a
\* delete removes only a mind map of the caller, and a get or a delete of
\* the mind map of another user is answered not found (404) and leaves the
\* mind map in place.
C29_OwnershipIsolation == [][Isolation({404})]_vars

\* C29, amended: the same, where a get or a delete of the mind map of
\* another user is answered not found (404), or with a server error (500)
\* when the database operation fails; in both cases the mind map stays and
\* nothing of it is sent.
C29_OwnershipIsolationOrError == [][Isolation({404, 500})]_vars

\* both users own a mind map, and a request for the other user's mind map
\* was answered not found
C29_Witness ==
    /\ reply.route \in {"get", "delete"} /\ reply.status = 404
    /\ Foreign(reply.id, reply.uid)
    /\ \A uid \in Uids :
           \E doc \in DocumentsOf(mindmaps) : doc.user_uid = uid

\* ------------------------------------------------------------------------
\* Properties of the fallback mind map
\* ------------------------------------------------------------------------

\* the number of lines given that have a character other than white space
NonBlank(lines) ==
    Cardinality({k \in 1..Len(lines) :
                     \E c \in 1..Len(lines[k]) : lines[k][c] \notin WhiteSpace})

\* the number of topics the claim gives: the non-blank lines up to six,
\* or the six default topics
TopicCount(lines) ==
    IF NonBlank(lines) = 0 THEN 6
    ELSE IF NonBlank(lines) > 6 THEN 6 ELSE NonBlank(lines)

NodesOfType(map, type) ==
    {i \in 1..Len(map.nodes) : map.nodes[i].type = type}

WellFormedTree(map, n) ==
    LET nodes == map.nodes
        edges == map.edges
        topics == NodesOfType(map, "topic")
        Under(i) == {j \in NodesOfType(map, "subtopic") :
                         nodes[j].parent = nodes[i].id}
        withSubtopics == {i \in topics : Under(i) /= {}}
    IN  /\ Cardinality(NodesOfType(map, "root")) = 1
        /\ Len(nodes) = 1 + Cardinality(topics)
                            + Cardinality(NodesOfType(map, "subtopic"))
        /\ Cardinality(topics) = n /\ 1 <= n /\ n <= 6
        /\ Cardinality(withSubtopics) = (IF n < 3 THEN n ELSE 3)
        /\ \A i \in withSubtopics :
               /\ Cardinality(Under(i)) = 3
               /\ \A k \in topics \ withSubtopics : i < k
        /\ \A i, j \in 1..Len(nodes) : nodes[i].id = nodes[j].id => i = j
        /\ \A j \in 1..Len(nodes) :
               nodes[j].type /= "root" =>
                   /\ \E i \in 1..Len(nodes) :
                          /\ nodes[i].id = nodes[j].parent
                          /\ \E c \in 1..Len(nodes[i].children) :
                                 nodes[i].children[c] = nodes[j].id
                   /\ Cardinality({e \in 1..Len(edges) :
                                       edges[e].target = nodes[j].id}) = 1
                   /\ \E e \in 1..Len(edges) :
                          /\ edges[e].source = nodes[j].parent
                          /\ edges[e].target = nodes[j].id
        /\ Len(edges) = Len(nodes) - 1

\* C30: for every subject name and syllabus, createFallbackMindMap returns
\* a tree with one root, with one topic for each of the first six non-blank
\* lines (six default topics when there is none), with three subtopics
\* under each of the first three topics and none under the others, with
\* distinct ids, where every node but the root names a parent that lists
\* it as a child, and with one edge from the parent to each such node.
C30_FallbackIsWellFormedTree ==
    returned /= NotReturned =>
        WellFormedTree(returned, TopicCount(arguments.lines))

\* a syllabus with more than six non-blank lines was given, and the tree
\* returned has its sixteen nodes
C30_Witness ==
    /\ returned /= NotReturned
    /\ NonBlank(arguments.lines) > 6
    /\ Len(returned.nodes) = 16
====
